---- MODULE Spec2Model ----
(***************************************************************************)
(* The workout controller of fitness_tracker (src/controllers/User.js)     *)
(* and the Express error handler it reports to (src/index.js).             *)
(*                                                                         *)
(* Text is a sequence of one-character strings, so that split, trim,       *)
(* parseInt, parseFloat and Number-to-String are computed character by     *)
(* character as JavaScript computes them.  Time is counted in hours since  *)
(* an arbitrary UTC midnight; a Date is such an hour count.                *)
(***************************************************************************)
EXTENDS Integers, Sequences, FiniteSets, TLC

(***************************************************************************)
(* Bounds of the model.                                                    *)
(***************************************************************************)
\* segments (";"-separated) per submitted workout string
MaxSegs == 3
\* submissions are taken while the store holds fewer entries than this
MaxStore == 1
\* the same, where the read operations run
MaxReadStore == 2
\* times the clock is read after the first
MaxTicks == 1

(***************************************************************************)
(* JavaScript strings.                                                     *)
(***************************************************************************)
\* A Number is [nan, neg, int, frac]: NaN, or the sign, the integer part and
\* the digits of the fraction (no trailing zero) of a finite decimal.
NaN == [nan |-> TRUE, neg |-> FALSE, int |-> 0, frac |-> <<>>]

\* the Number of an integer
Num(i) ==
    [nan |-> FALSE, neg |-> i < 0, int |-> IF i < 0 THEN -i ELSE i, frac |-> <<>>]

DigitChars == <<"0", "1", "2", "3", "4", "5", "6", "7", "8", "9">>

IsDigit(c) == \E i \in 1..10 : DigitChars[i] = c

DigitVal(c) == (CHOOSE i \in 1..10 : DigitChars[i] = c) - 1

\* String.prototype.trim strips these (the ones the inputs use)
IsSpace(c) == c \in {" ", "\n", "\t"}

RECURSIVE TrimStart(_)
TrimStart(s) ==
    IF s # <<>> /\ IsSpace(Head(s)) THEN TrimStart(Tail(s)) ELSE s

RECURSIVE TrimEnd(_)
TrimEnd(s) ==
    IF s # <<>> /\ IsSpace(s[Len(s)])
    THEN TrimEnd(SubSeq(s, 1, Len(s) - 1))
    ELSE s

Trim(s) == TrimEnd(TrimStart(s))

StartsWith(s, p) == Len(s) >= Len(p) /\ SubSeq(s, 1, Len(p)) = p

\* s.substring(1)
Substring1(s) == SubSeq(s, 2, Len(s))

MatchAt(s, sep, i) ==
    i + Len(sep) - 1 <= Len(s) /\ SubSeq(s, i, i + Len(sep) - 1) = sep

\* s.split(sep) for a non-empty separator: the pieces between the
\* occurrences of sep, found from left to right
RECURSIVE SplitFrom(_, _, _)
SplitFrom(s, sep, from) ==
    LET ms == {i \in from..Len(s) : MatchAt(s, sep, i)}
    IN  IF ms = {} THEN <<SubSeq(s, from, Len(s))>>
        ELSE LET m == CHOOSE i \in ms : \A j \in ms : i <= j
             IN  <<SubSeq(s, from, m - 1)>> \o SplitFrom(s, sep, m + Len(sep))

Split(s, sep) == SplitFrom(s, sep, 1)

MapTrim(pieces) == [i \in 1..Len(pieces) |-> Trim(pieces[i])]

\* the longest prefix of decimal digits
RECURSIVE DigitPrefix(_)
DigitPrefix(s) ==
    IF s # <<>> /\ IsDigit(Head(s))
    THEN <<Head(s)>> \o DigitPrefix(Tail(s))
    ELSE <<>>

RECURSIVE DigitsToNat(_)
DigitsToNat(ds) ==
    IF ds = <<>> THEN 0
    ELSE 10 * DigitsToNat(SubSeq(ds, 1, Len(ds) - 1)) + DigitVal(ds[Len(ds)])

RECURSIVE NatToDigits(_)
NatToDigits(n) ==
    IF n < 10 THEN <<DigitChars[n + 1]>>
    ELSE NatToDigits(n \div 10) \o <<DigitChars[(n % 10) + 1]>>

HasSign(s) == s # <<>> /\ Head(s) \in {"-", "+"}

IsNeg(s) == s # <<>> /\ Head(s) = "-"

Unsigned(s) == IF HasSign(s) THEN Tail(s) ELSE s

\* parseInt(string): leading white space, a sign, decimal digits; anything
\* after the digits is ignored; NaN when there is no digit
JsParseInt(str) ==
    LET t  == TrimStart(str)
        ds == DigitPrefix(Unsigned(t))
    IN  IF ds = <<>> THEN NaN
        ELSE Num((IF IsNeg(t) THEN -1 ELSE 1) * DigitsToNat(ds))

RECURSIVE StripZerosEnd(_)
StripZerosEnd(ds) ==
    IF ds # <<>> /\ ds[Len(ds)] = "0"
    THEN StripZerosEnd(SubSeq(ds, 1, Len(ds) - 1))
    ELSE ds

\* parseFloat(string): leading white space, a sign, digits, a fraction.
\* The inputs of this model write no exponent and no "Infinity".
JsParseFloat(str) ==
    LET t    == TrimStart(str)
        u    == Unsigned(t)
        ip   == DigitPrefix(u)
        rest == SubSeq(u, Len(ip) + 1, Len(u))
        fp   == IF rest # <<>> /\ Head(rest) = "."
                THEN DigitPrefix(Tail(rest)) ELSE <<>>
    IN  IF ip = <<>> /\ fp = <<>> THEN NaN
        ELSE [nan |-> FALSE, neg |-> IsNeg(t), int |-> DigitsToNat(ip),
              frac |-> StripZerosEnd(fp)]

RECURSIVE LeadingZeros(_)
LeadingZeros(ds) ==
    IF ds # <<>> /\ Head(ds) = "0" THEN 1 + LeadingZeros(Tail(ds)) ELSE 0

\* Number::toString(x), radix 10: positional notation down to 1e-6, the
\* exponential notation d.ddde-n below it
NumberToString(x) ==
    IF x.nan THEN <<"N", "a", "N">>
    ELSE IF x.int = 0 /\ x.frac = <<>> THEN <<"0">>
    ELSE LET sign == IF x.neg THEN <<"-">> ELSE <<>>
             z    == LeadingZeros(x.frac)
             sig  == SubSeq(x.frac, z + 1, Len(x.frac))
         IN  IF x.int > 0 \/ z < 6
             THEN sign \o NatToDigits(x.int)
                  \o (IF x.frac = <<>> THEN <<>> ELSE <<".">> \o x.frac)
             ELSE sign \o <<Head(sig)>>
                  \o (IF Len(sig) > 1 THEN <<".">> \o Tail(sig) ELSE <<>>)
                  \o <<"e", "-">> \o NatToDigits(z + 1)

\* parseInt(x) of a Number: ToString first, then parseInt of the text
JsParseIntOfNumber(x) == JsParseInt(NumberToString(x))

(***************************************************************************)
(* Numbers of the handlers.                                                *)
(***************************************************************************)
\* the integer of an integral finite Number
IntOf(x) == IF x.neg THEN -x.int ELSE x.int

\* a * b of integral Numbers; NaN if either is NaN
Times(a, b) == IF a.nan \/ b.nan THEN NaN ELSE Num(IntOf(a) * IntOf(b))

\* a + b of integral Numbers; NaN if either is NaN
Plus(a, b) == IF a.nan \/ b.nan THEN NaN ELSE Num(IntOf(a) + IntOf(b))

(***************************************************************************)
(* addWorkout: the parser.                                                 *)
(***************************************************************************)
caloriesBurntPerMinute == 5

\* createError(status, message): kind names the message, ord the count in it
Err(status, kind, ord) == [status |-> status, kind |-> kind, ord |-> ord]

NoDetails ==
    [workoutName |-> <<>>, sets |-> NaN, reps |-> NaN, weight |-> NaN,
     duration |-> NaN, category |-> <<>>]

\* parseWorkoutLine(parts): the details, null, or a TypeError thrown when
\* parts[2] holds no "sets" (split("sets")[1] is undefined)
parseWorkoutLine(parts) ==
    IF Len(parts) >= 5
    THEN LET bySets == Split(parts[3], <<"s", "e", "t", "s">>)
         IN  IF Len(bySets) < 2
             THEN [kind |-> "TypeError", details |-> NoDetails]
             ELSE [kind |-> "details",
                   details |->
                     [workoutName |-> Trim(Substring1(parts[2])),
                      sets |-> JsParseInt(Trim(Substring1(bySets[1]))),
                      reps |-> JsParseInt(Trim(Substring1(
                                 Split(bySets[2], <<"r", "e", "p", "s">>)[1]))),
                      weight |-> JsParseFloat(Trim(Substring1(
                                 Split(parts[4], <<"k", "g">>)[1]))),
                      duration |-> JsParseFloat(Trim(Substring1(
                                 Split(parts[5], <<"m", "i", "n">>)[1]))),
                      category |-> <<>>]]
    ELSE [kind |-> "null", details |-> NoDetails]

\* calculateCaloriesBurnt(workoutDetails)
calculateCaloriesBurnt(workoutDetails) ==
    LET durationInMinutes == JsParseIntOfNumber(workoutDetails.duration)
        weightInKg        == JsParseIntOfNumber(workoutDetails.weight)
    IN  Times(Times(durationInMinutes, Num(caloriesBurntPerMinute)), weightInKg)

\* the callback, were count++ inside the "#" branch: segments without "#"
\* would not be counted
CallbackCountsBlocks(line, acc, helperDefined) ==
    IF StartsWith(line, <<"#">>)
    THEN LET count == acc.count + 1
             a     == [acc EXCEPT !.count = count]
             parts == MapTrim(Split(line, <<"\n">>))
         IN  IF Len(parts) < 5
             THEN [a EXCEPT !.nexts = Append(@, Err(400, "MissingDetails", count))]
             ELSE IF ~helperDefined
             THEN [a EXCEPT !.thrown = "ReferenceError"]
             ELSE LET workoutDetails == parseWorkoutLine(parts)
                  IN  IF workoutDetails.kind = "TypeError"
                      THEN [a EXCEPT !.thrown = "TypeError"]
                      ELSE IF workoutDetails.kind = "null"
                      THEN [a EXCEPT !.nexts =
                              Append(@, Err(400, "ProperFormat", count))]
                      ELSE [a EXCEPT !.parsed =
                              Append(@, [workoutDetails.details EXCEPT
                                           !.category = Trim(Substring1(parts[1]))])]
    ELSE [acc EXCEPT !.nexts = Append(@, Err(400, "MissingDetails", acc.count))]

\* One call of the forEach callback on a segment.  acc holds count,
\* parsedWorkouts, the errors passed to next() so far, and what was thrown.
\* "return next(...)" leaves the callback only: the loop goes on.
\* helperDefined: whether the identifier parseWorkoutLine is bound.
Callback(line, acc, helperDefined) ==
    LET count == acc.count + 1
        a     == [acc EXCEPT !.count = count]
    IN  IF StartsWith(line, <<"#">>)
        THEN LET parts == MapTrim(Split(line, <<"\n">>))
             IN  IF Len(parts) < 5
                 THEN [a EXCEPT !.nexts = Append(@, Err(400, "MissingDetails", count))]
                 ELSE IF ~helperDefined
                 THEN [a EXCEPT !.thrown = "ReferenceError"]
                 ELSE LET currentCategory == Trim(Substring1(parts[1]))
                          workoutDetails  == parseWorkoutLine(parts)
                      IN  IF workoutDetails.kind = "TypeError"
                          THEN [a EXCEPT !.thrown = "TypeError"]
                          ELSE IF workoutDetails.kind = "null"
                          THEN [a EXCEPT !.nexts =
                                  Append(@, Err(400, "ProperFormat", count))]
                          ELSE [a EXCEPT !.parsed =
                                  Append(@, [workoutDetails.details EXCEPT
                                               !.category = currentCategory])]
        ELSE [a EXCEPT !.nexts = Append(@, Err(400, "MissingDetails", count))]

\* eachWorkout.forEach(callback): every segment in order, until one throws
RECURSIVE ForEachFrom(_, _, _, _)
ForEachFrom(eachWorkout, i, acc, helperDefined) ==
    IF i > Len(eachWorkout) \/ acc.thrown # "none" THEN acc
    ELSE ForEachFrom(eachWorkout, i + 1,
                     Callback(eachWorkout[i], acc, helperDefined), helperDefined)

\* workoutString.split(";").map(line => line.trim())
EachWorkout(workoutString) == MapTrim(Split(workoutString, <<";">>))

\* parsedWorkouts.map(...): the calories and the user added to each
WorkoutsToAdd(parsedWorkouts, userId) ==
    [i \in 1..Len(parsedWorkouts) |->
        [workoutName |-> parsedWorkouts[i].workoutName,
         sets |-> parsedWorkouts[i].sets,
         reps |-> parsedWorkouts[i].reps,
         weight |-> parsedWorkouts[i].weight,
         duration |-> parsedWorkouts[i].duration,
         category |-> parsedWorkouts[i].category,
         caloriesBurned |-> calculateCaloriesBurnt(parsedWorkouts[i]),
         user |-> userId]]

NoUser == "none"

\* The run of addWorkout on a request: the errors passed to next() in order,
\* the batches given to insertMany, and the 201 responses written.
\* body is [present, text]; a response written after the error handler has
\* answered throws (headers already sent), which the catch passes to next().
AddWorkoutRun(userId, body, helperDefined) ==
    LET none == [nexts |-> <<>>, batches |-> <<>>, success |-> 0]
    IN  IF userId = NoUser
        THEN [none EXCEPT !.nexts = <<Err(401, "Unauthorized", 0)>>]
        ELSE IF ~body.present \/ body.text = <<>>
        THEN [none EXCEPT !.nexts = <<Err(400, "StringMissing", 0)>>]
        ELSE LET acc == ForEachFrom(EachWorkout(body.text), 1,
                            [count |-> 0, parsed |-> <<>>, nexts |-> <<>>,
                             thrown |-> "none"], helperDefined)
                 workoutsToAdd == WorkoutsToAdd(acc.parsed, userId)
             IN  IF acc.thrown # "none"
                 THEN [none EXCEPT !.nexts = Append(acc.nexts, Err(500, acc.thrown, 0))]
                 ELSE IF Len(workoutsToAdd) = 0
                 THEN [none EXCEPT !.nexts = Append(acc.nexts, Err(400, "NoValid", 0))]
                 ELSE IF acc.nexts # <<>>
                 THEN [nexts |-> Append(acc.nexts, Err(500, "HeadersSent", 0)),
                       batches |-> <<workoutsToAdd>>, success |-> 0]
                 ELSE [nexts |-> <<>>, batches |-> <<workoutsToAdd>>, success |-> 1]

(***************************************************************************)
(* The requests the clients send.                                          *)
(***************************************************************************)
\* users of the User collection
Users == {"u1", "u2"}

\* an id a valid token carries whose user is not in the collection
Ghost == "ghost"

Legs == <<"L", "e", "g", "s">>

Back == <<"B", "a", "c", "k">>

Squat == <<"S", "q", "u", "a", "t">>

Line(t) == <<"#">> \o t

Kg(w) == w \o <<"k", "g">>

Min(d) == d \o <<"m", "i", "n">>

Lines4(c, n, sr, w) ==
    Line(c) \o <<"\n">> \o Line(n) \o <<"\n">> \o Line(sr) \o <<"\n">> \o Line(Kg(w))

\* the five lines of a block: category, name, sets and reps, weight, duration
Block(c, n, sr, w, d) == Lines4(c, n, sr, w) \o <<"\n">> \o Line(Min(d))

SetsReps == <<"3", " ", "s", "e", "t", "s", "X", "1", "2", " ", "r", "e", "p", "s">>

\* 72.9 kg for 30.7 min
GoodA ==
    Block(Legs, Squat, SetsReps, <<"7", "2", ".", "9">>, <<"3", "0", ".", "7">>)

\* 10 kg for 2 min
GoodB == Block(Back, Squat, SetsReps, <<"1", "0">>, <<"2">>)

\* four lines only
Short == Lines4(Legs, Squat, SetsReps, <<"5">>)

\* no "#" in front
NoHash == Legs

\* five lines, the third without "sets"
NoSets == Block(Legs, Squat, <<"3", "x", "1", "2">>, <<"5">>, <<"1", "0">>)

\* -2.5 kg for 10.5 min
Negative ==
    Block(Legs, Squat, SetsReps, <<"-", "2", ".", "5">>, <<"1", "0", ".", "5">>)

\* 0.0000001 kg for 10 min
Tiny ==
    Block(Back, Squat, SetsReps,
          <<"0", ".", "0", "0", "0", "0", "0", "0", "1">>, <<"1", "0">>)

SegTexts == {<<>>, NoHash, Short, GoodA, GoodB}

RECURSIVE SeqsUpTo(_, _)
SeqsUpTo(n, S) ==
    IF n = 0 THEN {<<>>}
    ELSE LET shorter == SeqsUpTo(n - 1, S)
         IN  shorter \cup {Append(q, x) : q \in {r \in shorter : Len(r) = n - 1}, x \in S}

RECURSIVE Join(_)
Join(segs) ==
    IF Len(segs) = 1 THEN segs[1]
    ELSE segs[1] \o <<";">> \o Join(Tail(segs))

\* the workout strings submitted: up to MaxSegs segments, and a few with
\* white space around the segments or with numbers of other shapes.  Every
\* number written parses: what insertMany does with a NaN is the schema's
\* business, and the schema is not part of these files.
Texts ==
    {Join(q) : q \in SeqsUpTo(MaxSegs, SegTexts) \ {<<>>}}
    \cup {<<" ">>, <<" ", ";", "\n">>,
          <<" ">> \o GoodA \o <<" ", ";", "\n">> \o GoodB \o <<"\n">>,
          Negative, Tiny, Join(<<GoodA, Tiny>>),
          Join(<<Negative, NoHash>>), NoSets, Join(<<NoHash, NoSets>>),
          Join(<<GoodA, NoSets, GoodB>>)}

Body(t) == [present |-> TRUE, text |-> t]

NoBody == [present |-> FALSE, text |-> <<>>]

Bodies == {NoBody} \cup {Body(t) : t \in Texts}

PlainBodies == {Body(GoodA), Body(GoodB), Body(Join(<<GoodB, GoodA>>))}

\* req.user.id and req.body of the submissions
Requests ==
    ({"u1"} \X Bodies) \cup ({"u2", NoUser} \X ({NoBody} \cup PlainBodies))

\* the submissions made where the read operations run
PlainRequests ==
    {<<"u1", Body(GoodA)>>, <<"u1", Body(Join(<<GoodB, GoodA>>))>>,
     <<"u2", Body(GoodB)>>}

\* every run of addWorkout the model takes, computed once
RunTable ==
    [r \in (Requests \cup PlainRequests) \X BOOLEAN |->
        AddWorkoutRun(r[1][1], r[1][2], r[2])] @@ <<>>

(***************************************************************************)
(* Dates.  The time zone is [before, after, at]: the hours local time is   *)
(* ahead of UTC before and from the instant at.                            *)
(***************************************************************************)
HoursPerDay == 24

Utc == [before |-> 0, after |-> 0, at |-> 0]

\* five hours behind UTC all year
West == [before |-> -5, after |-> -5, at |-> 0]

\* clocks go forward at 02:00 of local day 0, which is 23 hours long
Spring == [before |-> 5, after |-> 6, at |-> -3]

\* clocks go back at 02:00 of local day 0, which is 25 hours long
Fall == [before |-> 6, after |-> 5, at |-> -4]

Zones == {Utc, West, Spring, Fall}

Offset(z, t) == IF t < z.at THEN z.before ELSE z.after

\* the local calendar day of a Date (getFullYear, getMonth, getDate), as a
\* count of days; getDate's label is taken to be this count
CalendarDay(z, t) == (t + Offset(z, t)) \div HoursPerDay

\* new Date(year, month, day): the local midnight of a calendar day
NewDate(z, d) ==
    LET t == HoursPerDay * d - z.before
    IN  IF t < z.at THEN t ELSE HoursPerDay * d - z.after

\* $dateToString with format %Y-%m-%d and no timezone: the UTC day
UtcDay(t) == t \div HoursPerDay

(***************************************************************************)
(* The queries on the Workout collection.                                  *)
(***************************************************************************)
\* the query, were the user left out of its filter
MatchingAnyUser(coll, u, lo, hi) ==
    SelectSeq(coll, LAMBDA w : w.date >= lo /\ w.date < hi)

\* $match / find: the user's documents with lo <= date < hi
Matching(coll, u, lo, hi) ==
    SelectSeq(coll, LAMBDA w : w.user = u /\ w.date >= lo /\ w.date < hi)

RECURSIVE SumCalories(_)
SumCalories(ws) ==
    IF ws = <<>> THEN Num(0)
    ELSE Plus(SumCalories(SubSeq(ws, 1, Len(ws) - 1)), ws[Len(ws)].caloriesBurned)

\* $group with _id null: no group when nothing matches
AggregateTotal(coll, u, lo, hi) ==
    LET ws == Matching(coll, u, lo, hi)
    IN  IF ws = <<>> THEN <<>> ELSE <<SumCalories(ws)>>

countDocuments(coll, u, lo, hi) == Len(Matching(coll, u, lo, hi))

\* $group by category: one {label, value} per category, in no set order
AggregateByCategory(coll, u, lo, hi) ==
    LET ws == Matching(coll, u, lo, hi)
    IN  {[label |-> c,
          value |-> SumCalories(SelectSeq(ws, LAMBDA w : w.category = c))] :
            c \in {ws[i].category : i \in 1..Len(ws)}}

\* $group by the UTC day, $sort ascending: weekData[0] is the group of the
\* earliest UTC day among the matches
WeekData0(coll, u, lo, hi) ==
    LET ws   == Matching(coll, u, lo, hi)
        days == {UtcDay(ws[i].date) : i \in 1..Len(ws)}
    IN  IF ws = <<>> THEN <<>>
        ELSE LET first == CHOOSE d \in days : \A e \in days : d <= e
             IN  <<SumCalories(SelectSeq(ws, LAMBDA w : UtcDay(w.date) = first))>>

\* x ? x : 0 of a Number
OrZero(x) == IF x.nan \/ (x.int = 0 /\ x.frac = <<>>) THEN Num(0) ELSE x

\* a / b: den = 0 stands for the division by zero (Infinity or NaN)
Quotient(a, b) == [num |-> a, den |-> b]

(***************************************************************************)
(* State.                                                                  *)
(***************************************************************************)
VARIABLES
    store,   \* the Workout collection, in insertion order
    now,     \* the clock, in hours
    zone,    \* the time zone of the server
    rd,      \* the read request in progress
    last     \* the last request answered and what it did

vars == <<store, now, zone, rd, last>>

\* the document of the collection for w: the schema dates it at creation
Stored(w, t) ==
    [workoutName |-> w.workoutName, sets |-> w.sets, reps |-> w.reps,
     weight |-> w.weight, duration |-> w.duration, category |-> w.category,
     caloriesBurned |-> w.caloriesBurned, user |-> w.user, date |-> t]

\* Workout.insertMany(batch) at time t
insertMany(coll, batch, t) ==
    coll \o [i \in 1..Len(batch) |-> Stored(batch[i], t)]

RECURSIVE InsertAll(_, _, _)
InsertAll(coll, batches, t) ==
    IF batches = <<>> THEN coll
    ELSE InsertAll(insertMany(coll, Head(batches), t), Tail(batches), t)

RECURSIVE Flatten(_)
Flatten(batches) ==
    IF batches = <<>> THEN <<>> ELSE Head(batches) \o Flatten(Tail(batches))

Idle == [pc |-> "idle"]

\* no answer yet
Pending == [op |-> "none"]

\* the hours at which the clock is read: 18:00 UTC and every six hours after
Readings == {18 + 6 * k : k \in 0..MaxTicks}

InitIn(zones) ==
    /\ store = <<>>
    /\ now = 18
    /\ zone \in zones
    /\ rd = Idle
    /\ last = Pending

\* addWorkout(req, res, next), with req.user.id = userId and req.body = body
AddWorkoutWith(userId, body, helperDefined, cap) ==
    LET run == RunTable[<<<<userId, body>>, helperDefined>>]
    IN  /\ last = Pending
        /\ Len(store) < cap
        /\ store' = InsertAll(store, run.batches, now)
        /\ last' = [op |-> "addWorkout", user |-> userId, body |-> body,
                    nexts |-> run.nexts, batches |-> run.batches,
                    success |-> run.success, before |-> Len(store)]
        /\ UNCHANGED <<now, zone, rd>>

AddWorkout ==
    \E r \in Requests : AddWorkoutWith(r[1], r[2], TRUE, MaxStore)

\* the file as it stands: parseWorkoutLine is called and nowhere defined
AddWorkoutLive ==
    \E r \in Requests : AddWorkoutWith(r[1], r[2], FALSE, MaxStore)

AddWorkoutPlain ==
    \E r \in PlainRequests : AddWorkoutWith(r[1], r[2], TRUE, MaxReadStore)

\* the client has read the answer
Deliver ==
    /\ last # Pending
    /\ last' = Pending
    /\ UNCHANGED <<store, now, zone, rd>>

Tick ==
    /\ now + 6 \in Readings
    /\ now' = now + 6
    /\ UNCHANGED <<store, zone, rd, last>>

(***************************************************************************)
(* getUserDashboard.  Each await is a step of its own: submissions and the *)
(* clock may act between two queries.  seen records the number of          *)
(* documents the collection held at the sum query, at the count query and  *)
(* at the answer (the collection only grows, so its first seen documents   *)
(* are the collection of that moment).                                     *)
(***************************************************************************)
NotFound(op, u) ==
    [op |-> op, user |-> u, nexts |-> <<Err(404, "NotFound", 0)>>, ok |-> FALSE]

\* User.findById, then new Date() and the bounds of today
DashboardStart ==
    \E userId \in Users \cup {Ghost} :
        /\ rd.pc = "idle"
        /\ IF userId \notin Users
           THEN /\ last' = NotFound("getUserDashboard", userId)
                /\ UNCHANGED rd
           ELSE /\ rd' = [pc |-> "total", op |-> "getUserDashboard",
                          user |-> userId,
                          currentDateFormatted |-> now,
                          startToday |-> NewDate(zone, CalendarDay(zone, now)),
                          endToday |-> NewDate(zone, CalendarDay(zone, now) + 1),
                          totalCaloriesBurnt |-> <<>>, totalWorkouts |-> 0,
                          avgCaloriesBurntPerWorkout |-> Quotient(Num(0), 1),
                          pieChartData |-> {}, i |-> 6,
                          weeks |-> <<>>, caloriesBurnt |-> <<>>,
                          seen |-> <<>>]
                /\ last' = Pending
        /\ UNCHANGED <<store, now, zone>>

\* the aggregate of today's calories
DashboardTotal ==
    /\ rd.pc = "total"
    /\ rd' = [rd EXCEPT !.pc = "count",
                !.totalCaloriesBurnt =
                    AggregateTotal(store, rd.user, rd.startToday, rd.endToday),
                !.seen = Append(@, Len(store))]
    /\ UNCHANGED <<store, now, zone, last>>

\* the average, were the quotient taken without the guard
AverageUnguarded(totalCaloriesBurnt, totalWorkouts) ==
    Quotient(IF Len(totalCaloriesBurnt) > 0 THEN totalCaloriesBurnt[1] ELSE Num(0),
             totalWorkouts)

\* the average of the handler: guarded by the aggregate, divided by the count
Average(totalCaloriesBurnt, totalWorkouts) ==
    IF Len(totalCaloriesBurnt) > 0
    THEN Quotient(totalCaloriesBurnt[1], totalWorkouts)
    ELSE Quotient(Num(0), 1)

\* countDocuments of today, then the average
DashboardCount ==
    /\ rd.pc = "count"
    /\ LET totalWorkouts ==
               countDocuments(store, rd.user, rd.startToday, rd.endToday)
       IN  rd' = [rd EXCEPT !.pc = "category",
                    !.totalWorkouts = totalWorkouts,
                    !.avgCaloriesBurntPerWorkout =
                        Average(rd.totalCaloriesBurnt, totalWorkouts),
                    !.seen = Append(@, Len(store))]
    /\ UNCHANGED <<store, now, zone, last>>

\* the aggregate by category, for the pie chart
DashboardCategory ==
    /\ rd.pc = "category"
    /\ rd' = [rd EXCEPT !.pc = "week",
                !.pieChartData =
                    AggregateByCategory(store, rd.user, rd.startToday, rd.endToday)]
    /\ UNCHANGED <<store, now, zone, last>>

\* the Date of the loop's round i: i times 24 hours before the call
WeekDate(currentDateFormatted, i) == currentDateFormatted - i * HoursPerDay

\* one round of the loop over i = 6 .. 0; the last one answers
DashboardWeek ==
    /\ rd.pc = "week"
    /\ LET date       == WeekDate(rd.currentDateFormatted, rd.i)
           startOfDay == NewDate(zone, CalendarDay(zone, date))
           endOfDay   == NewDate(zone, CalendarDay(zone, date) + 1)
           weekData   == WeekData0(store, rd.user, startOfDay, endOfDay)
           value      == IF weekData = <<>> THEN Num(0) ELSE OrZero(weekData[1])
           weeks      == Append(rd.weeks, CalendarDay(zone, date))
           calories   == Append(rd.caloriesBurnt, value)
           seen       == Append(rd.seen, Len(store))
       IN  IF rd.i > 0
           THEN /\ rd' = [rd EXCEPT !.i = @ - 1, !.weeks = weeks,
                            !.caloriesBurnt = calories]
                /\ UNCHANGED last
           ELSE /\ rd' = Idle
                /\ last' =
                     [op |-> "getUserDashboard", user |-> rd.user,
                      nexts |-> <<>>, ok |-> TRUE,
                      at |-> rd.currentDateFormatted,
                      totalCaloriesBurnt |->
                          IF Len(rd.totalCaloriesBurnt) > 0
                          THEN rd.totalCaloriesBurnt[1] ELSE Num(0),
                      totalWorkouts |-> rd.totalWorkouts,
                      avgCaloriesBurntPerWorkout |-> rd.avgCaloriesBurntPerWorkout,
                      weeks |-> weeks, caloriesBurned |-> calories,
                      pieChartData |-> rd.pieChartData, seen |-> seen]
    /\ UNCHANGED <<store, now, zone>>

(***************************************************************************)
(* getWorkoutsByDate.  query is [given, valid, date]: whether the request  *)
(* has a date, whether new Date(text) is a valid Date, and that Date.      *)
(***************************************************************************)
NoQuery == [given |-> FALSE, valid |-> TRUE, date |-> 0]

BadQuery == [given |-> TRUE, valid |-> FALSE, date |-> 0]

Queries ==
    {NoQuery, BadQuery}
    \cup {[given |-> TRUE, valid |-> TRUE, date |-> t] : t \in {-7, 6, 19, 24}}

\* User.findById, then the Date asked for (or new Date()) and its bounds
WorkoutsStart ==
    \E userId \in Users \cup {Ghost}, query \in Queries :
        /\ rd.pc = "idle"
        /\ LET date == IF query.given THEN query.date ELSE now
           IN  IF userId \notin Users
               THEN /\ last' = NotFound("getWorkoutsByDate", userId)
                    /\ UNCHANGED rd
               ELSE IF ~query.valid
               THEN /\ last' = [op |-> "getWorkoutsByDate", user |-> userId,
                                nexts |-> <<Err(500, "CastError", 0)>>,
                                ok |-> FALSE]
                    /\ UNCHANGED rd
               ELSE /\ rd' = [pc |-> "find", op |-> "getWorkoutsByDate",
                              user |-> userId, date |-> date,
                              startOfDay |-> NewDate(zone, CalendarDay(zone, date)),
                              endOfDay |-> NewDate(zone, CalendarDay(zone, date) + 1)]
                    /\ last' = Pending
        /\ UNCHANGED <<store, now, zone>>

\* Workout.find, the sum of the calories, the answer
WorkoutsFind ==
    /\ rd.pc = "find"
    /\ LET todaysWorkouts == Matching(store, rd.user, rd.startOfDay, rd.endOfDay)
       IN  last' = [op |-> "getWorkoutsByDate", user |-> rd.user,
                    nexts |-> <<>>, ok |-> TRUE, date |-> rd.date,
                    todaysWorkouts |-> todaysWorkouts,
                    totalCaloriesBurnt |-> SumCalories(todaysWorkouts),
                    seen |-> Len(store)]
    /\ rd' = Idle
    /\ UNCHANGED <<store, now, zone>>

Next == AddWorkout \/ Deliver \/ Tick

Spec == InitIn({Utc}) /\ [][Next]_vars

NextLive == AddWorkoutLive \/ Deliver \/ Tick

SpecLive == InitIn({Utc}) /\ [][NextLive]_vars

NextRead ==
    \/ AddWorkoutPlain
    \/ Deliver
    \/ Tick
    \/ DashboardStart
    \/ DashboardTotal
    \/ DashboardCount
    \/ DashboardCategory
    \/ DashboardWeek
    \/ WorkoutsStart
    \/ WorkoutsFind

SpecRead == InitIn(Zones) /\ [][NextRead]_vars

(***************************************************************************)
(* What the specification says of a submission, in terms of its text.      *)
(***************************************************************************)
IsAdd == last.op = "addWorkout"

\* the segments of the last submission, when it reached the parser
Segs == EachWorkout(last.body.text)

Parsed == IsAdd /\ last.user # NoUser /\ last.body.present /\ last.body.text # <<>>

LinesOf(seg) == MapTrim(Split(seg, <<"\n">>))

\* not starting with "#", or fewer than 5 lines
Malformed(seg) == ~StartsWith(seg, <<"#">>) \/ Len(LinesOf(seg)) < 5

FieldsParse(seg) ==
    LET r == parseWorkoutLine(LinesOf(seg))
    IN  /\ r.kind = "details"
        /\ ~r.details.sets.nan /\ ~r.details.reps.nan
        /\ ~r.details.weight.nan /\ ~r.details.duration.nan

WellFormed(seg) == ~Malformed(seg) /\ FieldsParse(seg)

Rejected(seg) == ~WellFormed(seg)

Inserted == Flatten(last.batches)

CategoryOf(seg) == Trim(Substring1(LinesOf(seg)[1]))

C2_Success ==
    (Parsed /\ \A k \in 1..Len(Segs) : WellFormed(Segs[k]))
        => /\ last.success = 1
           /\ last.nexts = <<>>
           /\ Len(last.batches) = 1
           /\ Len(Inserted) = Len(Segs)
           /\ \A k \in 1..Len(Inserted) :
                 /\ Inserted[k].user = last.user
                 /\ Inserted[k].category = CategoryOf(Segs[k])
           /\ Len(store) = last.before + Len(Segs)
           /\ \A k \in 1..Len(Segs) :
                 /\ store[last.before + k].user = last.user
                 /\ store[last.before + k].category = CategoryOf(Segs[k])

(***************************************************************************)
(* C3.  Fail-fast, single outcome: a request ends in exactly one error     *)
(* passed to next() (that of the first rejected segment, and then nothing  *)
(* is inserted) or in exactly one success answer with no error.            *)
(***************************************************************************)
FirstRejected == CHOOSE k \in 1..Len(Segs) :
                    Rejected(Segs[k]) /\ \A j \in 1..(k - 1) : ~Rejected(Segs[j])

C3_SingleOutcome ==
    IsAdd =>
        \/ /\ Len(last.nexts) = 1
           /\ last.success = 0
           /\ last.batches = <<>>
           /\ (Parsed /\ \E k \in 1..Len(Segs) : Malformed(Segs[k]) /\ k = FirstRejected)
                 => last.nexts[1].ord = FirstRejected
        \/ /\ last.nexts = <<>>
           /\ last.success = 1
           /\ Len(last.batches) = 1

(***************************************************************************)
(* C4.  Empty input: the empty string, or a string of only ";" and white   *)
(* space, fails with the "no valid workouts" error and no other error, and *)
(* nothing is persisted.                                                   *)
(***************************************************************************)
OnlySeparators(text) == \A i \in 1..Len(text) : text[i] = ";" \/ IsSpace(text[i])

C4_EmptyInput ==
    (IsAdd /\ last.user # NoUser /\ last.body.present
       /\ OnlySeparators(last.body.text))
        => (last.nexts = <<Err(400, "NoValid", 0)>> /\ Inserted = <<>>)

(***************************************************************************)
(* C5.  Error ordinal: every error reported for a malformed block (no "#"  *)
(* in front, or fewer than 5 lines) names the 1-based position of that     *)
(* block among all the segments of the string, and every malformed block   *)
(* the loop reaches is reported so.                                        *)
(***************************************************************************)
\* the segments the loop reaches: up to the first one whose parse throws
Throws(seg) == ~Malformed(seg) /\ parseWorkoutLine(LinesOf(seg)).kind = "TypeError"

MissingErrors == SelectSeq(last.nexts, LAMBDA e : e.kind = "MissingDetails")

Trunc(x) == IF x.nan THEN NaN ELSE Num(IF x.neg THEN -x.int ELSE x.int)

IsDashboard == last.op = "getUserDashboard" /\ last.ok

IsListing == last.op = "getWorkoutsByDate" /\ last.ok

\* the collection as the last dashboard found it: 1 at the sum query, 2 at
\* the count query, 3 at its answer
SeenBy(k) == SubSeq(store, 1, last.seen[k])

\* the user's entries of a collection dated within a local calendar day
OfDay(coll, u, d) ==
    SelectSeq(coll, LAMBDA w : /\ w.user = u
                               /\ w.date >= NewDate(zone, d)
                               /\ w.date < NewDate(zone, d + 1))

(***************************************************************************)
(* C7.  Dashboard average: avgCaloriesBurntPerWorkout is                   *)
(* totalCaloriesBurnt / totalWorkouts when totalWorkouts > 0 and 0 when it *)
(* is 0, and nothing is divided by zero, also when the user's submissions  *)
(* land between the sum query and the count query.                         *)
(***************************************************************************)
C7_Average ==
    IsDashboard =>
        LET avg == last.avgCaloriesBurntPerWorkout
        IN  /\ avg.den # 0
            /\ ~avg.num.nan
            /\ last.totalWorkouts > 0 =>
                  IntOf(avg.num) * last.totalWorkouts
                      = IntOf(last.totalCaloriesBurnt) * avg.den
            /\ last.totalWorkouts = 0 => IntOf(avg.num) = 0

\* the sum query found no entry of today, the count query found some
C7_Witness ==
    /\ IsDashboard
    /\ last.seen[1] < last.seen[2]
    /\ OfDay(SeenBy(1), last.user, CalendarDay(zone, last.at)) = <<>>
    /\ last.totalWorkouts > 0

(***************************************************************************)
(* C8.  Weekly series days: the series has 7 positions and position k      *)
(* (0..6) is the local calendar day today - 6 + k, whatever the time of    *)
(* the call and the length of the days of the window.                      *)
(***************************************************************************)
C8_WeekDays ==
    IsDashboard =>
        /\ Len(last.weeks) = 7
        /\ \A k \in 1..7 : last.weeks[k] = CalendarDay(zone, last.at) - 7 + k

(***************************************************************************)
(* C9.  Weekly series values: the value of each of the 7 days is the sum   *)
(* of caloriesBurned of the user's entries dated within that local day (0  *)
(* when none), in every time zone, and the last value is today's           *)
(* totalCaloriesBurnt.  (Stated of the calls during which nothing is       *)
(* inserted, so that the stored entries are the same at every query.)      *)
(***************************************************************************)
C9_WeekValues ==
    (IsDashboard /\ last.seen[1] = last.seen[3]) =>
        /\ Len(last.caloriesBurned) = 7
        /\ \A k \in 1..7 :
              last.caloriesBurned[k] =
                  SumCalories(OfDay(store, last.user, last.weeks[k]))
        /\ last.caloriesBurned[7] = last.totalCaloriesBurnt

(***************************************************************************)
(* C10.  Day listing: for an existing user the answer holds exactly the    *)
(* stored entries of the caller dated within the local day asked for, none *)
(* of another user, and the sum of their caloriesBurned; an unknown user   *)
(* gets NotFound; the call leaves the store unchanged.                     *)
(***************************************************************************)
C10_Answer ==
    /\ IsListing =>
          LET day == CalendarDay(zone, last.date)
          IN  /\ last.user \in Users
              /\ last.todaysWorkouts = OfDay(SubSeq(store, 1, last.seen), last.user, day)
              /\ \A k \in 1..Len(last.todaysWorkouts) :
                    last.todaysWorkouts[k].user = last.user
              /\ last.totalCaloriesBurnt = SumCalories(last.todaysWorkouts)
    /\ (last.op = "getWorkoutsByDate" /\ last.user \notin Users)
          => (~last.ok /\ last.nexts = <<Err(404, "NotFound", 0)>>)
    /\ (rd.pc = "find") => rd.user \in Users

\* a step of getWorkoutsByDate: its start, its find, or its error
ListingStep ==
    \/ rd.pc = "idle" /\ rd'.pc = "find"
    \/ rd.pc = "find" /\ rd'.pc = "idle"
    \/ last' # last /\ last'.op = "getWorkoutsByDate"

C10_DayListing ==
    /\ []C10_Answer
    /\ [][ListingStep => store' = store]_vars

\* a listing that returns an entry of the caller while the store holds
\* another user's entry of the same day
C10_Witness ==
    /\ IsListing
    /\ last.todaysWorkouts # <<>>
    /\ \E k \in 1..last.seen :
          /\ store[k].user # last.user
          /\ store[k].date >= NewDate(zone, CalendarDay(zone, last.date))
          /\ store[k].date < NewDate(zone, CalendarDay(zone, last.date) + 1)
====
